---- MODULE Spec2Model ----
(***************************************************************************)
(* A model of aidigest (src/aidigest.py): the ignore filter, the content   *)
(* transforms and the aggregation run of aggregate_files.                  *)
(*                                                                         *)
(* Python strings are TLA+ strings, used as sequences of characters        *)
(* through Len, SubSeq and \o.  The grave accent (U+0060, the backtick)    *)
(* cannot be written inside a TLA+ string literal; it is written as the    *)
(* character ~, which occurs nowhere else in the model.                    *)
(***************************************************************************)
EXTENDS Integers, Sequences, FiniteSets, TLC

VARIABLES
    content,      \* ContentTransformer: the text handed to a transform
    transformed,  \* ContentTransformer: the text after the passes applied so far
    passes,       \* ContentTransformer: number of passes applied
    patterns,     \* IgnoreFilter: self.patterns
    path,         \* IgnoreFilter: the path of the last ignores() call ("": none yet)
    ignored,      \* IgnoreFilter: what that call returned
    pc,           \* aggregate_files: the position of the run
    args,         \* aggregate_files: its parameters
    fs,           \* the regular files on disk: absolute path -> file
    user_ignore_patterns,
    all_files,
    pending,      \* the files the for loop has not reached yet
    output,
    included_count,
    default_ignored_count,
    custom_ignored_count,
    binary_and_svg_file_count,
    included_files,
    log,          \* the lines printed, by kind
    environ       \* os.environ['LATEST_AIDIGEST'] ("": not set)

transformVars == <<content, transformed, passes>>

filterVars == <<patterns, path, ignored>>

countVars == <<included_count, default_ignored_count, custom_ignored_count,
               binary_and_svg_file_count>>

runVars == <<pc, args, fs, user_ignore_patterns, all_files, pending, output,
             countVars, included_files, log, environ>>

vars == <<transformVars, filterVars, runVars>>

----------------------------------------------------------------------------
(* Characters and strings *)

BT == "~"

\* The vertical tab (U+000B), for which TLA+ has no escape, is written |.
VT == "|"

CharAt(s, i) == SubSeq(s, i, i)

From(s, i) == SubSeq(s, i, Len(s))

StartsWith(s, p) == Len(p) <= Len(s) /\ SubSeq(s, 1, Len(p)) = p

EndsWith(s, p) == Len(p) <= Len(s) /\ SubSeq(s, Len(s) - Len(p) + 1, Len(s)) = p

Max(S) == CHOOSE i \in S : \A j \in S : j <= i

\* The strings over alphabet of length at most n.
RECURSIVE StringsUpTo(_, _)
StringsUpTo(alphabet, n) ==
    IF n = 0 THEN {""}
    ELSE {s \o c : s \in StringsUpTo(alphabet, n - 1), c \in alphabet \cup {""}}

----------------------------------------------------------------------------
(* ContentTransformer *)

\* What Python's str.isspace and the regex class \s accept, among the
\* characters of the model.
Whitespace == {" ", "\t", "\n", "\r", "\f", VT}

Horizontal == {"\t", " "}

\* The number of characters of s before the first c (Len(s) when there is none).
RECURSIVE Before(_, _)
Before(s, c) ==
    IF s = "" \/ CharAt(s, 1) = c THEN 0 ELSE 1 + Before(From(s, 2), c)

\* The length of the longest prefix of s made of characters of set.
RECURSIVE RunLength(_, _)
RunLength(s, set) ==
    IF s /= "" /\ CharAt(s, 1) \in set THEN 1 + RunLength(From(s, 2), set) ELSE 0

\* A variant that collapses the runs of spaces and then turns each tab into
\* a space: re.sub(r' +', ' ', content).replace('\t', ' ')
RECURSIVE CollapseSpacesThenTabs(_)
CollapseSpacesThenTabs(s) ==
    IF s = "" THEN ""
    ELSE IF CharAt(s, 1) = " "
         THEN " " \o CollapseSpacesThenTabs(From(s, RunLength(s, {" "}) + 1))
    ELSE IF CharAt(s, 1) = "\t" THEN " " \o CollapseSpacesThenTabs(From(s, 2))
    ELSE CharAt(s, 1) \o CollapseSpacesThenTabs(From(s, 2))

\* re.sub(r'[\t ]+', ' ', content)
RECURSIVE CollapseHorizontal(_)
CollapseHorizontal(s) ==
    IF s = "" THEN ""
    ELSE IF CharAt(s, 1) \in Horizontal
         THEN " " \o CollapseHorizontal(From(s, RunLength(s, Horizontal) + 1))
         ELSE CharAt(s, 1) \o CollapseHorizontal(From(s, 2))

\* For s starting with "\n": the length of the greedy match of \n\s*\n at the
\* start of s, or 0 when there is none.  \s* takes the whole whitespace run
\* and backtracks to the last "\n" in it.
LastNewline(s, run) ==
    IF \E k \in 2..run : CharAt(s, k) = "\n"
    THEN Max({k \in 2..run : CharAt(s, k) = "\n"})
    ELSE 0

NewlineMatch(s) == LastNewline(s, RunLength(s, Whitespace))

\* re.sub(r'\n\s*\n', '\n\n', content)
RECURSIVE CollapseNewlines(_)
\* s with the match of length n at its start replaced (n = 0: no match there)
CollapseAt(s, n) ==
    IF n > 0 THEN "\n\n" \o CollapseNewlines(From(s, n + 1))
    ELSE CharAt(s, 1) \o CollapseNewlines(From(s, 2))

CollapseNewlines(s) ==
    IF s = "" THEN ""
    ELSE CollapseAt(s, IF CharAt(s, 1) = "\n" THEN NewlineMatch(s) ELSE 0)

\* str.strip()
RECURSIVE Strip(_)
Strip(s) ==
    IF s = "" THEN ""
    ELSE IF CharAt(s, 1) \in Whitespace THEN Strip(From(s, 2))
    ELSE IF CharAt(s, Len(s)) \in Whitespace THEN Strip(SubSeq(s, 1, Len(s) - 1))
    ELSE s

remove_whitespace(s) == Strip(CollapseNewlines(CollapseHorizontal(s)))

\* str.replace: the occurrences are replaced left to right, without overlap.
RECURSIVE escape_triple_backticks(_)
escape_triple_backticks(s) ==
    IF s = "" THEN ""
    ELSE IF StartsWith(s, BT \o BT \o BT)
         THEN "\\" \o BT \o "\\" \o BT \o "\\" \o BT \o escape_triple_backticks(From(s, 4))
         ELSE CharAt(s, 1) \o escape_triple_backticks(From(s, 2))

----------------------------------------------------------------------------
(* The constants of aidigest.py *)

\* A variant of the list without the plain-text extension
MarkupExtensions == <<".md", ".rtf">>

WHITESPACE_DEPENDENT_EXTENSIONS == <<".md", ".txt", ".rtf">>

DEFAULT_IGNORES ==
    << ".git", ".svn", ".hg", ".idea", ".vscode",
       "node_modules", "venv", "env", "__pycache__",
       "*.pyc", "*.pyo", "*.pyd", "*.db", "*.sqlite3",
       "*.log", "*.sql", "*.swp", "*.swo",
       "*.bak", "*.tmp", "*.temp",
       "*.o", "*.obj", "*.exe", "*.dll", "*.so", "*.dylib",
       "*.jar", "*.war", "*.ear", "*.sar", "*.class",
       "*.lock", "*.DS_Store", "Thumbs.db" >>

----------------------------------------------------------------------------
(* The files of a run *)

\* A regular file: the media type libmagic sniffs, whether sniffing it
\* succeeds, its text, and whether its bytes decode as UTF-8.
File(mime, text, sniffs, decodes) ==
    [mime |-> mime, text |-> text, sniffs |-> sniffs, decodes |-> decodes]

TextFile(text) == File("text/plain", text, TRUE, TRUE)

BinaryFile(mime) == File(mime, "", TRUE, FALSE)

\* The files an input directory may hold, by path below the working
\* directory: old.c is not UTF-8, key.bin cannot be sniffed.
InputUniverse ==
    ("a.txt" :> TextFile("hello   world"))
    @@ ("b.png" :> BinaryFile("image/png"))
    @@ (".git/config" :> TextFile("[core]\n"))
    @@ ("m.py" :> File("text/x-script.python", "x  =\t1\n\n\n\ns = '~~~'\n", TRUE, TRUE))
    @@ ("old.c" :> File("text/x-c", "", TRUE, FALSE))
    @@ ("key.bin" :> File("", "", FALSE, FALSE))
    @@ ("logo.svg" :> BinaryFile("image/svg+xml"))
    @@ (".aidigestignore" :> TextFile(".git\n# local\n\nm.py \n"))
    @@ ("x.pyc" :> BinaryFile("application/octet-stream"))
    @@ ("poetry.lock" :> TextFile("[[package]]\n"))
    @@ ("lib/app.jar" :> BinaryFile("application/java-archive"))
    @@ ("node_modules/i.js" :> TextFile("i()\n"))
    @@ ("pkg/__pycache__/m.pyc" :> BinaryFile("application/octet-stream"))

\* The directory of the scenario of the specification
ScenarioNames == {"a.txt", "b.png", ".git/config"}

\* Files a source tree holds
SourceNames == {".git/config", "m.py", "old.c", "key.bin", "logo.svg", ".aidigestignore"}

\* Compiled artifacts, archives, lock files and caches beside a source file
ArtifactNames == {"m.py", "x.pyc", "poetry.lock", "lib/app.jar", "node_modules/i.js",
                  "pkg/__pycache__/m.pyc"}

\* datetime.now().strftime("%Y%m%d_%H%M%S") and ("%Y-%m-%d %H:%M:%S")
Timestamp == "20240102_030405"
InfoTimestamp == "2024-01-02 03:04:05"

\* ' '.join(sys.argv)
Command == "aidigest"

\* A base output directory outside the working directory.
OutsideDir == "/o"

----------------------------------------------------------------------------
(* os.path on a POSIX system, and the IgnoreFilter *)

\* os.getcwd()
Cwd == "/w"

\* s.split(sep), for a separator of one character
RECURSIVE SplitOn(_, _)
\* s split where its first n characters are the first component
SplitAt(s, sep, n) ==
    IF n = Len(s) THEN <<s>>
    ELSE <<SubSeq(s, 1, n)>> \o SplitOn(From(s, n + 2), sep)

SplitOn(s, sep) == SplitAt(s, sep, Before(s, sep))

\* sep.join(comps)
RECURSIVE JoinWith(_, _)
JoinWith(comps, sep) ==
    IF comps = <<>> THEN ""
    ELSE IF Len(comps) = 1 THEN comps[1]
    ELSE comps[1] \o sep \o JoinWith(Tail(comps), sep)

\* str.split('/')
Split(s) == SplitOn(s, "/")

\* '/'.join(comps)
Join(comps) == JoinWith(comps, "/")

\* The loop of posixpath.normpath over the components: "" and "." are
\* dropped, ".." removes the component before it unless there is none (kept
\* on a relative path, dropped at the root) or it is itself a "..".
NormStep(comp, new_comps, initial_slashes) ==
    IF comp \in {"", "."} THEN new_comps
    ELSE IF \/ comp /= ".."
            \/ (initial_slashes = 0 /\ new_comps = <<>>)
            \/ (new_comps /= <<>> /\ new_comps[Len(new_comps)] = "..")
         THEN Append(new_comps, comp)
    ELSE IF new_comps /= <<>>
         THEN SubSeq(new_comps, 1, Len(new_comps) - 1)
    ELSE new_comps

RECURSIVE NormComps(_, _, _)
NormComps(comps, new_comps, initial_slashes) ==
    IF comps = <<>> THEN new_comps
    ELSE NormComps(Tail(comps), NormStep(Head(comps), new_comps, initial_slashes),
                   initial_slashes)

\* The count normpath keeps of the leading slashes of p: 0, 1, or 2 for
\* exactly two.
InitialSlashes(p) ==
    IF ~StartsWith(p, "/") THEN 0
    ELSE IF StartsWith(p, "//") /\ ~StartsWith(p, "///") THEN 2
    ELSE 1

\* path or '.'
OrDot(result) == IF result = "" THEN "." ELSE result

NormFrom(p, initial_slashes) ==
    OrDot(SubSeq("//", 1, initial_slashes)
          \o Join(NormComps(Split(p), <<>>, initial_slashes)))

\* posixpath.normpath
posixpath_normpath(p) == IF p = "" THEN "." ELSE NormFrom(p, InitialSlashes(p))

\* posixpath.join(a, b)
join(a, b) ==
    IF StartsWith(b, "/") THEN b
    ELSE IF a = "" \/ EndsWith(a, "/") THEN a \o b
    ELSE a \o "/" \o b

\* create_output_directory: the directory of the run
OutputDir(base_dir) == join(join(base_dir, "aidigest"), Timestamp)

\* The paths of the files a run meets, absolute and relative to the working
\* directory
KnownPaths ==
    {join(Cwd, n) : n \in DOMAIN InputUniverse}
    \cup {join(OutputDir(base_dir), n) :
              base_dir \in {Cwd, OutsideDir}, n \in {"aidigest", "info.txt"}}

KnownRelativePaths ==
    {From(p, Len(join(Cwd, "")) + 1) : p \in {q \in KnownPaths : StartsWith(q, join(Cwd, ""))}}

\* posixpath.normpath of the strings the runs pass to it again and again,
\* computed once
NormalizedPaths ==
    [p \in {DEFAULT_IGNORES[k] : k \in 1..Len(DEFAULT_IGNORES)}
            \cup KnownPaths \cup KnownRelativePaths \cup {Cwd}
        |-> posixpath_normpath(p)] @@ <<>>

\* os.path.normpath
normpath(p) ==
    IF p \in DOMAIN NormalizedPaths THEN NormalizedPaths[p] ELSE posixpath_normpath(p)

\* posixpath.abspath
abspath(p) == normpath(join(Cwd, p))

\* [x for x in s.split('/') if x]
NonEmpty(comps) == SelectSeq(comps, LAMBDA x : x /= "")

\* len(commonprefix([a, b])) of two component lists
RECURSIVE CommonPrefixLen(_, _)
CommonPrefixLen(a, b) ==
    IF a /= <<>> /\ b /= <<>> /\ Head(a) = Head(b)
    THEN 1 + CommonPrefixLen(Tail(a), Tail(b))
    ELSE 0

\* [pardir] * (len(start_list) - i) + path_list[i:]
RelList(start_list, path_list, i) ==
    [k \in 1..(Len(start_list) - i) |-> ".."] \o SubSeq(path_list, i + 1, Len(path_list))

\* curdir for an empty rel_list, else join(*rel_list)
RelJoin(rel_list) == IF rel_list = <<>> THEN "." ELSE Join(rel_list)

RelBetween(start_list, path_list) ==
    RelJoin(RelList(start_list, path_list, CommonPrefixLen(start_list, path_list)))

\* posixpath.relpath(p) with start = os.getcwd(); p is not empty
posixpath_relpath(p) ==
    RelBetween(NonEmpty(Split(abspath(Cwd))), NonEmpty(Split(abspath(p))))

\* posixpath.relpath of the files a run meets, computed once
RelativePaths == [p \in KnownPaths |-> posixpath_relpath(p)] @@ <<>>

\* os.path.relpath
relpath(p) ==
    IF p \in DOMAIN RelativePaths THEN RelativePaths[p] ELSE posixpath_relpath(p)

\* IgnoreFilter.__init__
IgnoreFilter(raw) == [k \in 1..Len(raw) |-> normpath(raw[k])]

\* IgnoreFilter.ignores: the test of one pattern
Matches(relative_path, raw_pattern) ==
    \E pattern \in {normpath(raw_pattern)} :
        \/ relative_path = pattern
        \/ StartsWith(relative_path, join(pattern, ""))

\* IgnoreFilter.ignores
ignores(self_patterns, p) ==
    \E relative_path \in {normpath(relpath(p))} :
        \E k \in 1..Len(self_patterns) : Matches(relative_path, self_patterns[k])

----------------------------------------------------------------------------
(* The disk of a run *)

output_dir == OutputDir(args.base_output_dir)

output_file == join(output_dir, "aidigest")

\* write_info_file: the file it writes and its text
info_file == join(output_dir, "info.txt")

InfoText == "Command: " \o Command \o "\n" \o "Timestamp: " \o InfoTimestamp \o "\n"

\* The document an earlier run of the same second left in the output directory.
PreviousDocument == "# b.png\n\nThis is a binary file of the type: image/png\n\n"

\* The disk before a run: the chosen input files, and what an earlier run
\* of the same second wrote when there was one.
Disk(names, previous, base_dir) ==
    LET inputs == [f \in {join(Cwd, n) : n \in names} |->
                       InputUniverse[From(f, Len(join(Cwd, "")) + 1)]]
        earlier == (join(OutputDir(base_dir), "aidigest") :> TextFile(PreviousDocument))
                   @@ (join(OutputDir(base_dir), "info.txt") :> TextFile(InfoText))
    IN  IF previous THEN earlier @@ inputs ELSE inputs

\* fs with file f holding text
WriteText(disk, f, text) == (f :> TextFile(text)) @@ disk

----------------------------------------------------------------------------
(* read_ignore_file *)

\* str.splitlines(), for the line end "\n"
RECURSIVE SplitLines(_)
SplitLines(s) ==
    IF s = "" THEN <<>>
    ELSE LET n == Before(s, "\n")
         IN  <<SubSeq(s, 1, n)>> \o SplitLines(From(s, n + 2))

\* [line.strip() for line in lines if line.strip() and not line.startswith('#')]
RECURSIVE PatternLines(_)
PatternLines(lines) ==
    IF lines = <<>> THEN <<>>
    ELSE IF Strip(Head(lines)) /= "" /\ ~StartsWith(Head(lines), "#")
         THEN <<Strip(Head(lines))>> \o PatternLines(Tail(lines))
         ELSE PatternLines(Tail(lines))

\* read_ignore_file(os.getcwd()): no file, no patterns
read_ignore_file ==
    LET ignore_file_path == join(Cwd, ".aidigestignore")
    IN  IF ignore_file_path \in DOMAIN fs
        THEN PatternLines(SplitLines(fs[ignore_file_path].text))
        ELSE <<>>

----------------------------------------------------------------------------
(* collect_files, for input_patterns = ['.'] (the default of main) *)

\* os.walk from the working directory reaches file f when no directory on the
\* way is pruned by the exclude filter; the file is then tested itself.
Walked(exclude_filter, f) ==
    \E comps \in {Split(relpath(f))} :
        /\ \A k \in 1..(Len(comps) - 1) :
               ~ignores(exclude_filter, join(Cwd, Join(SubSeq(comps, 1, k))))
        /\ ~ignores(exclude_filter, f)

collect_files ==
    LET exclude_filter == IgnoreFilter(args.exclude_patterns)
    IN  {abspath(f) : f \in {g \in DOMAIN fs : /\ StartsWith(g, join(Cwd, ""))
                                               /\ Walked(exclude_filter, g)}}

----------------------------------------------------------------------------
(* Classifier *)

\* A variant of is_text_file that answers True when sniffing raises
is_text_file_failing_open(f) ==
    IF ~fs[f].sniffs THEN TRUE
    ELSE \/ StartsWith(fs[f].mime, "text/")
         \/ fs[f].mime \in {"application/json", "application/xml"}

\* is_text_file: False when sniffing raises
is_text_file(f) ==
    IF ~fs[f].sniffs THEN FALSE
    ELSE \/ StartsWith(fs[f].mime, "text/")
         \/ fs[f].mime \in {"application/json", "application/xml"}

\* get_file_type: "unknown" when sniffing raises
get_file_type(f) == IF ~fs[f].sniffs THEN "unknown" ELSE fs[f].mime

----------------------------------------------------------------------------
(* aggregate_files *)

\* IgnoreFilter(DEFAULT_IGNORES)
DefaultFilter == IgnoreFilter(DEFAULT_IGNORES)

default_ignore == IF args.use_default_ignores THEN DefaultFilter ELSE IgnoreFilter(<<>>)

custom_ignore == IgnoreFilter(user_ignore_patterns \o args.exclude_patterns)

\* A variant of the loop body that tests the custom filter before the
\* default filter
DispositionCustomFirst(file) ==
    IF abspath(output_file) = file THEN "self"
    ELSE IF ignores(custom_ignore, file) THEN "custom"
    ELSE IF args.use_default_ignores /\ ignores(default_ignore, file) THEN "default"
    ELSE IF is_text_file(file)
         THEN IF fs[file].decodes THEN "text" ELSE "read_error"
    ELSE "binary"

\* What the loop body does with a file: skips it as the output file, counts
\* it as ignored, embeds it as text, drops it on a read error, or describes
\* it as binary.
Disposition(file) ==
    IF abspath(output_file) = file THEN "self"
    ELSE IF args.use_default_ignores /\ ignores(default_ignore, file) THEN "default"
    ELSE IF ignores(custom_ignore, file) THEN "custom"
    ELSE IF is_text_file(file)
         THEN IF fs[file].decodes THEN "text" ELSE "read_error"
    ELSE "binary"

\* name.rfind('.') + 1
LastDot(name) ==
    IF \E i \in 1..Len(name) : CharAt(name, i) = "."
    THEN Max({i \in 1..Len(name) : CharAt(name, i) = "."})
    ELSE 0

\* PurePath.suffix: from the last dot of the name, when it is neither the
\* first nor the last character
SuffixFrom(name, i) == IF 1 < i /\ i < Len(name) THEN From(name, i) ELSE ""

SuffixOfName(name) == SuffixFrom(name, LastDot(name))

\* Path(file).suffix
Suffix(file) == SuffixOfName(Split(file)[Len(Split(file))])

\* any(file.endswith(ext) for ext in WHITESPACE_DEPENDENT_EXTENSIONS)
WhitespaceDependent(file) ==
    \E k \in 1..Len(WHITESPACE_DEPENDENT_EXTENSIONS) :
        EndsWith(file, WHITESPACE_DEPENDENT_EXTENSIONS[k])

\* The content of a text file as it is embedded
Embedded(file) ==
    LET escaped == escape_triple_backticks(fs[file].text)
    IN  IF args.remove_whitespace_flag /\ ~WhitespaceDependent(file)
        THEN remove_whitespace(escaped)
        ELSE escaped

Header(relative_path) == "# " \o relative_path \o "\n\n"

Fence == BT \o BT \o BT

\* What the loop body appends to output for a file
Block(file, disposition) ==
    IF disposition = "text"
    THEN Header(relpath(file)) \o Fence \o From(Suffix(file), 2) \o "\n"
         \o Embedded(file) \o "\n" \o Fence \o "\n\n"
    ELSE IF disposition = "binary"
    THEN Header(relpath(file))
         \o (IF get_file_type(file) = "image/svg+xml"
             THEN "This is a file of the type: SVG Image\n\n"
             ELSE "This is a binary file of the type: " \o get_file_type(file) \o "\n\n")
    ELSE ""

\* The warnings the loop body prints for a file
Warnings(file, disposition) ==
    IF disposition = "read_error" THEN << <<"Error reading file", file>> >>
    ELSE IF disposition = "binary" /\ ~fs[file].sniffs
    THEN << <<"Error determining file type", file>>,
            <<"Error getting file type", file>> >>
    ELSE <<>>

\* Lines 137-144: the output directory, info.txt, the ignore file
FsAfterPrepare == WriteText(fs, info_file, InfoText)

Prepare ==
    /\ pc = "start"
    /\ fs' = FsAfterPrepare
    /\ user_ignore_patterns' = read_ignore_file
    /\ pc' = "collect"
    /\ UNCHANGED <<args, all_files, pending, output, countVars, included_files,
                   log, environ, transformVars, filterVars>>

\* Lines 156-165
Collect ==
    /\ pc = "collect"
    /\ all_files' = collect_files
    /\ pending' = collect_files
    /\ pc' = "loop"
    /\ UNCHANGED <<args, fs, user_ignore_patterns, output, countVars,
                   included_files, log, environ, transformVars, filterVars>>

\* Lines 167-199: one iteration of the loop.  all_files is a set of
\* strings; the order in which Python iterates over it is not fixed.
ProcessFile ==
    /\ pc = "loop"
    /\ \E file \in pending : \E disposition \in {Disposition(file)} :
           LET included == disposition \in {"text", "binary"}
           IN  /\ pending' = pending \ {file}
               /\ default_ignored_count' =
                      default_ignored_count + (IF disposition = "default" THEN 1 ELSE 0)
               /\ custom_ignored_count' =
                      custom_ignored_count + (IF disposition = "custom" THEN 1 ELSE 0)
               /\ output' = output \o Block(file, disposition)
               /\ binary_and_svg_file_count' =
                      binary_and_svg_file_count + (IF disposition = "binary" THEN 1 ELSE 0)
               /\ included_count' = included_count + (IF included THEN 1 ELSE 0)
               /\ included_files' =
                      IF included THEN Append(included_files, relpath(file))
                      ELSE included_files
               /\ log' = log \o Warnings(file, disposition)
    /\ UNCHANGED <<pc, args, fs, user_ignore_patterns, all_files, environ,
                   transformVars, filterVars>>

\* A variant in which the statements after the loop sit in its body
InsideLoop == TRUE

\* The for loop of line 167 has ended: the statements after it run then
LoopFinished == pending = {}

\* Line 201: aiofiles.open(output_file, 'w') creates the file or empties it
OpenOutput ==
    /\ pc = "loop"
    /\ LoopFinished
    /\ fs' = WriteText(fs, output_file, "")
    /\ pc' = "opened"
    /\ UNCHANGED <<args, user_ignore_patterns, all_files, pending, output, countVars,
                   included_files, log, environ, transformVars, filterVars>>

\* What the text layer of a file opened with newline=None writes for s:
\* every "\n" becomes os.linesep, when that is not "\n" itself
Translate(s, linesep) ==
    IF linesep = "\n" THEN s ELSE JoinWith(SplitOn(s, "\n"), linesep)

\* Line 202: f.write(output) and the close; os.linesep is "\n" or "\r\n",
\* by the platform
WriteOutput ==
    /\ pc = "opened"
    /\ \E linesep \in {"\n", "\r\n"} :
           fs' = WriteText(fs, output_file, Translate(output, linesep))
    /\ pc' = "written"
    /\ UNCHANGED <<args, user_ignore_patterns, all_files, pending, output, countVars,
                   included_files, log, environ, transformVars, filterVars>>

\* A variant without the comparison
SizeUnchecked == TRUE

\* Lines 204-206: os.path.getsize(output_file) against len(output.encode('utf-8'));
\* the characters of the model are ASCII, one byte each
SizeMatches == Len(fs[output_file].text) = Len(output)

\* Lines 204-235: the integrity check, the report, LATEST_AIDIGEST
Verify ==
    /\ pc = "written"
    /\ IF ~SizeMatches
       THEN /\ pc' = "raised"
            /\ UNCHANGED <<log, environ>>
       ELSE /\ pc' = "done"
            /\ log' = log \o << <<"Files aggregated successfully", output_file>>,
                                <<"Done!", output_file>>,
                                <<"LATEST_AIDIGEST set to", output_file>> >>
            /\ environ' = output_file
    /\ UNCHANGED <<args, fs, user_ignore_patterns, all_files, pending, output,
                   countVars, included_files, transformVars, filterVars>>

FilterIdle == patterns = <<>> /\ path = "" /\ ignored = FALSE

TransformIdle == content = "" /\ transformed = "" /\ passes = 0

MaxFiles == 2

ExcludeChoices == {<<>>, <<"b.png", ".git">>}

RunStart ==
    /\ pc = "start"
    /\ user_ignore_patterns = <<>>
    /\ all_files = {}
    /\ pending = {}
    /\ output = ""
    /\ included_count = 0
    /\ default_ignored_count = 0
    /\ custom_ignored_count = 0
    /\ binary_and_svg_file_count = 0
    /\ included_files = <<>>
    /\ log = <<>>
    /\ environ = ""

RunIdle ==
    /\ RunStart
    /\ args = [use_default_ignores |-> TRUE, remove_whitespace_flag |-> FALSE,
               exclude_patterns |-> <<>>, base_output_dir |-> Cwd]
    /\ fs = <<>>

Init ==
    /\ TransformIdle
    /\ FilterIdle
    /\ RunStart
    /\ args \in [use_default_ignores : BOOLEAN, remove_whitespace_flag : BOOLEAN,
                 exclude_patterns : ExcludeChoices, base_output_dir : {Cwd, OutsideDir}]
    /\ \E names \in SUBSET SourceNames, previous \in BOOLEAN :
           /\ Cardinality(names) <= MaxFiles
           /\ fs = Disk(names, previous, args.base_output_dir)

\* The scenario: default ignores on, whitespace compaction on, nothing else
\* in the directory but what runs of aidigest wrote
InitScenario ==
    /\ TransformIdle
    /\ FilterIdle
    /\ RunStart
    /\ args \in [use_default_ignores : {TRUE}, remove_whitespace_flag : {TRUE},
                 exclude_patterns : {<<>>}, base_output_dir : {Cwd, OutsideDir}]
    /\ \E previous \in BOOLEAN : fs = Disk(ScenarioNames, previous, args.base_output_dir)

\* Runs with the default ignores on, over trees that hold artifacts
InitDefaults ==
    /\ TransformIdle
    /\ FilterIdle
    /\ RunStart
    /\ args \in [use_default_ignores : {TRUE}, remove_whitespace_flag : BOOLEAN,
                 exclude_patterns : {<<>>}, base_output_dir : {Cwd, OutsideDir}]
    /\ \E names \in SUBSET ArtifactNames :
           /\ Cardinality(names) <= MaxFiles
           /\ fs = Disk(names, FALSE, args.base_output_dir)

Next == Prepare \/ Collect \/ ProcessFile \/ OpenOutput \/ WriteOutput \/ Verify

Spec == Init /\ [][Next]_vars

SpecScenario == InitScenario /\ [][Next]_vars

SpecDefaults == InitDefaults /\ [][Next]_vars

----------------------------------------------------------------------------
(* The pure transforms applied to bounded inputs *)

MaxEscLen == 5
MaxWsLen == 4
MaxPasses == 2

EscAlphabet == {BT, "\\", "x", "\n"}
WsAlphabet == {" ", "\t", "\n", "\r", "\f", VT, "x"}

Escape ==
    /\ passes = 0
    /\ transformed' = escape_triple_backticks(content)
    /\ passes' = 1
    /\ UNCHANGED <<content, filterVars, runVars>>

Compact ==
    /\ passes < MaxPasses
    /\ transformed' = remove_whitespace(transformed)
    /\ passes' = passes + 1
    /\ UNCHANGED <<content, filterVars, runVars>>

InitEsc ==
    /\ FilterIdle
    /\ RunIdle
    /\ content \in StringsUpTo(EscAlphabet, MaxEscLen)
    /\ transformed = content
    /\ passes = 0

InitWs ==
    /\ FilterIdle
    /\ RunIdle
    /\ content \in StringsUpTo(WsAlphabet, MaxWsLen)
    /\ transformed = content
    /\ passes = 0

(* The IgnoreFilter applied to bounded pattern lists and paths *)

MaxPatternLen == 3
MaxPatterns == 2
MaxPathLen == 3

PatternAlphabet == {".", "/", "a"}
PathAlphabet == {".", "/", "a", "b"}
ChildNames == {"a", "b"}

RawPatterns == StringsUpTo(PatternAlphabet, MaxPatternLen)

QueryPaths == StringsUpTo(PathAlphabet, MaxPathLen) \ {""}

RECURSIVE ListsUpTo(_, _)
ListsUpTo(set, n) ==
    IF n = 0 THEN {<<>>}
    ELSE {<<>>} \cup {<<x>> \o l : x \in set, l \in ListsUpTo(set, n - 1)}

\* A first call ignores(p).
Query ==
    /\ path = ""
    /\ \E p \in QueryPaths :
           /\ path' = p
           /\ ignored' = ignores(patterns, p)
    /\ UNCHANGED <<patterns, transformVars, runVars>>

\* A further call, on a path below the last one.
Descend ==
    /\ path /= ""
    /\ Len(path) <= MaxPathLen
    /\ \E child \in ChildNames :
           /\ path' = join(path, child)
           /\ ignored' = ignores(patterns, join(path, child))
    /\ UNCHANGED <<patterns, transformVars, runVars>>

InitIgn ==
    /\ TransformIdle
    /\ RunIdle
    /\ \E raw \in ListsUpTo(RawPatterns, MaxPatterns) : patterns = IgnoreFilter(raw)
    /\ path = ""
    /\ ignored = FALSE

SpecIgn == InitIgn /\ [][Query \/ Descend]_vars

SpecEsc == InitEsc /\ [][Escape]_vars

SpecWs == InitWs /\ [][Compact]_vars

----------------------------------------------------------------------------
(* Properties *)

\* The places of s where sub occurs
Occurrences(s, sub) ==
    {i \in 1..(Len(s) - Len(sub) + 1) : SubSeq(s, i, i + Len(sub) - 1) = sub}

Contains(s, sub) == Occurrences(s, sub) /= {}

Min(S) == CHOOSE i \in S : \A j \in S : i <= j

\* Three consecutive backticks occur in s
HasTriple(s) == Contains(s, Fence)

\* C4: for every content, the result of escape_triple_backticks holds no
\* three consecutive backticks, whatever the length of the runs of backticks
\* in the content.
EscapedHasNoFence == passes = 1 => ~HasTriple(transformed)

\* C6: ignores is closed under descent: when ignores(P) is true for a
\* filter, ignores(P/child) is true for every child, for every pattern list,
\* those with patterns that normalize to ".", end with a separator or hold
\* ".." included.
ClosedUnderDescent ==
    (path /= "" /\ ignored) =>
        \A child \in ChildNames : ignores(patterns, join(path, child))

\* C7: remove_whitespace is idempotent: compacting a compacted content, any
\* number of times, gives the content compacted once.
CompactionIdempotent == passes >= 1 => transformed = remove_whitespace(content)

\* A content that compaction changed into a non-empty text has been
\* compacted twice.
CompactedTwice ==
    /\ passes = 2
    /\ transformed /= content
    /\ transformed /= ""
    /\ \E i \in 1..Len(content) : CharAt(content, i) \in {"\r", "\f", VT}

----------------------------------------------------------------------------
(* Properties of the run *)

\* The characters of the relative paths of the model, by code point
CodeOrder == "./0123456789_abcdefghijklmnopqrstuvwxyz"

Ord(c) == Min(Occurrences(CodeOrder, c))

\* a < b, as Python compares strings
RECURSIVE StrLess(_, _)
StrLess(a, b) ==
    IF b = "" THEN FALSE
    ELSE IF a = "" THEN TRUE
    ELSE IF CharAt(a, 1) = CharAt(b, 1) THEN StrLess(From(a, 2), From(b, 2))
    ELSE Ord(CharAt(a, 1)) < Ord(CharAt(b, 1))

\* The block of relative path a starts before the block of b in the document
Precedes(a, b) ==
    /\ Contains(output, Header(a))
    /\ Contains(output, Header(b))
    /\ Min(Occurrences(output, Header(a))) < Min(Occurrences(output, Header(b)))

Range(seq) == {seq[k] : k \in 1..Len(seq)}

\* C1: the blocks of the document are in ascending order of the relative
\* paths: when the block of A precedes the block of B, relpath(A) < relpath(B),
\* whatever the order in which the files were discovered.
BlocksInPathOrder ==
    \A a, b \in Range(included_files) : Precedes(a, b) => StrLess(a, b)

\* The run is past the write of the document
Written == pc \in {"written", "raised", "done"}

\* The blocks of the scenario
TextBlock(relative_path, tag, text) ==
    Header(relative_path) \o Fence \o tag \o "\n" \o text \o "\n" \o Fence \o "\n\n"

BinaryBlock(relative_path, type) ==
    Header(relative_path) \o "This is a binary file of the type: " \o type \o "\n\n"

\* C2 as the specification states it: the document of the scenario has
\* exactly two entries, a.txt with the fenced content "hello world" and b.png
\* with its description, none for .git/config, and one file is counted as
\* ignored by default.
ScenarioAsStated ==
    Written =>
        /\ included_count = 2
        /\ Range(included_files) = {"a.txt", "b.png"}
        /\ Contains(output, TextBlock("a.txt", "txt", "hello world"))
        /\ Contains(output, BinaryBlock("b.png", "image/png"))
        /\ ~Contains(output, Header(".git/config"))
        /\ default_ignored_count = 1

\* C2, amended: the content of a.txt is embedded as it is, "hello   world",
\* .txt being a whitespace-dependent extension; b.png has its description;
\* .git/config has no entry and is the one file counted as ignored by
\* default; these are the only entries, but for the info.txt of the run when
\* the output directory lies in the working directory.
ScenarioDocument ==
    Written =>
        /\ Range(included_files) =
               {"a.txt", "b.png"}
               \cup (IF args.base_output_dir = Cwd THEN {relpath(info_file)} ELSE {})
        /\ included_count = Cardinality(Range(included_files))
        /\ Contains(output, TextBlock("a.txt", "txt", "hello   world"))
        /\ Contains(output, BinaryBlock("b.png", "image/png"))
        /\ ~Contains(output, Header(".git/config"))
        /\ default_ignored_count = 1

\* The scenario has run to its end with the output directory elsewhere: two
\* entries.
ScenarioDone ==
    /\ pc = "done"
    /\ args.base_output_dir = OutsideDir
    /\ join(Cwd, "a.txt") \in all_files
    /\ included_count = 2

\* The candidates the loop has been through
Processed == all_files \ pending

\* The candidates that reached the classification: neither the output file
\* nor ignored
Classified ==
    {f \in Processed :
        /\ f /= abspath(output_file)
        /\ ~(args.use_default_ignores /\ ignores(DefaultFilter, f))
        /\ ~ignores(custom_ignore, f)}

HasBlock(f) == Contains(output, Header(relpath(f)))

Counted(f) == relpath(f) \in Range(included_files)

SniffFailed(f) == ~fs[f].sniffs

ReadFailed(f) == fs[f].sniffs /\ is_text_file(f) /\ ~fs[f].decodes

Logged(kind, f) == \E k \in 1..Len(log) : log[k] = <<kind, f>>

\* C3 as the specification states it: a file whose classification or whose
\* reading failed has no block and is not counted as included.
FailedFilesLeftOut ==
    \A f \in Classified :
        (SniffFailed(f) \/ ReadFailed(f)) => (~HasBlock(f) /\ ~Counted(f))

\* C3, amended: a file whose reading failed has no block and is not counted
\* as included; a file whose classification failed is treated as not text:
\* it has the one-line description of a binary file, of type unknown when
\* the type cannot be had either, and is counted as included and as binary;
\* in both cases the warning is printed, the remaining candidates are
\* processed and the document is written.
LocalFailuresRecovered ==
    /\ \A f \in Classified :
           /\ ReadFailed(f) =>
                  (~HasBlock(f) /\ ~Counted(f) /\ Logged("Error reading file", f))
           /\ SniffFailed(f) =>
                  /\ Contains(output, BinaryBlock(relpath(f), "unknown"))
                  /\ Counted(f)
                  /\ Logged("Error determining file type", f)
    /\ Cardinality({f \in Classified : SniffFailed(f)}) <= binary_and_svg_file_count
    /\ included_count = Len(included_files)
    /\ Written => (Processed = all_files /\ output_file \in DOMAIN fs)

\* A run that met a file it could not classify and a file it could not read
\* has written its document.
FailuresThenWritten ==
    /\ Written
    /\ \E f, g \in Classified : SniffFailed(f) /\ ReadFailed(g)

\* The last component of relative path rel, or one of its directories, is
\* what a pattern of the default list names: the name itself, or for *.ext
\* a name ending in .ext
CoveredBy(pattern, rel) ==
    IF StartsWith(pattern, "*")
    THEN EndsWith(Split(rel)[Len(Split(rel))], From(pattern, 2))
    ELSE \E k \in 1..Len(Split(rel)) : Split(rel)[k] = pattern

CoveredByDefaults(rel) ==
    \E k \in 1..Len(DEFAULT_IGNORES) : CoveredBy(DEFAULT_IGNORES[k], rel)

\* C5: with the default ignores on, every candidate the default list covers,
\* by a directory of the list or by an extension of the list, at any depth,
\* is left out of the document and counted as ignored by default.
DefaultsCoverArtifacts ==
    /\ \A f \in Processed : CoveredByDefaults(relpath(f)) => ~HasBlock(f) /\ ~Counted(f)
    /\ default_ignored_count =
           Cardinality({f \in Processed : CoveredByDefaults(relpath(f))})

\* The run printed that it succeeded
SuccessReported ==
    \E k \in 1..Len(log) : log[k][1] \in {"Files aggregated successfully", "Done!"}

\* The length of the file of the document is the length of the document
SameLength == Len(fs[output_file].text) = Len(output)

\* C8: when the length of the written file differs from the length of the
\* document in memory the run ends with the integrity error, no success is
\* reported and LATEST_AIDIGEST is not set; LATEST_AIDIGEST is set to the
\* path of the document only in a run whose lengths agreed.
IntegrityGate ==
    /\ pc = "raised" => (~SameLength /\ ~SuccessReported /\ environ = "")
    /\ pc = "done" => (SameLength /\ SuccessReported /\ environ = output_file)
    /\ pc \notin {"raised", "done"} => (~SuccessReported /\ environ = "")

\* A run whose file came out longer than its document has ended with the
\* integrity error.
MismatchRaised == pc = "raised" /\ Len(fs[output_file].text) > Len(output)

\* C9: the document is built in memory and written once, after the last
\* candidate: until then the file of the run is absent, or is what an
\* earlier run of the same second left, and never holds a part of the
\* document; it is opened only when no candidate is left and then holds the
\* whole document.
WrittenOnceAtEnd ==
    /\ pc \in {"start", "collect", "loop"} =>
           (output_file \in DOMAIN fs => fs[output_file].text = PreviousDocument)
    /\ pc = "opened" => (pending = {} /\ fs[output_file].text = "")
    /\ Written =>
           /\ pending = {}
           /\ \E linesep \in {"\n", "\r\n"} :
                  fs[output_file].text = Translate(output, linesep)

\* The loop has a block in memory, a candidate left, and no file of the run
\* on disk.
BuiltInMemory ==
    /\ pc = "loop"
    /\ output /= ""
    /\ pending /= {}
    /\ output_file \notin DOMAIN fs

\* The candidates the loop skipped: the output file, and those it could not
\* read
SkippedCount ==
    Cardinality({f \in Processed : f = abspath(output_file)})
    + Cardinality({k \in 1..Len(log) : log[k][1] = "Error reading file"})

IgnoredByDefault ==
    {f \in Processed : /\ f /= abspath(output_file)
                       /\ args.use_default_ignores
                       /\ ignores(DefaultFilter, f)}

IgnoredByCustom ==
    {f \in Processed \ IgnoredByDefault : /\ f /= abspath(output_file)
                                          /\ ignores(custom_ignore, f)}

\* C10: the counters partition the candidates the loop has been through:
\* included + ignored by default + ignored by custom + skipped is their
\* number; a file both filters match is counted as ignored by default only;
\* the default count is 0 when the default ignores are off; the binary count
\* is at most the included count; included_files has included_count entries.
CountersPartition ==
    /\ included_count + default_ignored_count + custom_ignored_count + SkippedCount
           = Cardinality(Processed)
    /\ default_ignored_count = Cardinality(IgnoredByDefault)
    /\ custom_ignored_count = Cardinality(IgnoredByCustom)
    /\ ~args.use_default_ignores => default_ignored_count = 0
    /\ binary_and_svg_file_count <= included_count
    /\ Len(included_files) = included_count

\* The loop has ended over a file that both filters match, counted once.
BothFiltersMatched ==
    /\ pc = "done"
    /\ \E f \in all_files : ignores(DefaultFilter, f) /\ ignores(custom_ignore, f)
    /\ args.use_default_ignores
    /\ default_ignored_count = 1
    /\ custom_ignored_count = 0
    /\ included_count = 1

====
